---- MODULE Spec2Model ----
(***************************************************************************)
(* Model of filter_cf_domains.py: a batch of HTTPS header probes run under *)
(* an asyncio.Semaphore, drained in completion order by                    *)
(* asyncio.as_completed, the matching domains collected in cf_domains.     *)
(*                                                                         *)
(* Strings that the code case-folds (header names and values) are          *)
(* sequences of one-character strings, so that lower() is computed.        *)
(* Domain names are opaque strings.                                        *)
(***************************************************************************)
EXTENDS Integers, Sequences, FiniteSets

VARIABLES
    rows,             \* the parsed rows of INPUT_FILE (csv.reader)
    concurrencyLimit, \* the value given to asyncio.Semaphore / TCPConnector
    pc,               \* position of main(): start, draining, done, raised
    domains,          \* main.domains
    semaphore,        \* asyncio.Semaphore._value
    st,               \* per task: waiting, inflight, closing, finished, drained
    result,           \* per task: NoResult or the outcome of check_with_semaphore
    acquired,         \* per task: number of times it acquired the semaphore
    released,         \* per task: number of times it released the semaphore
    cause,            \* per task: how its request ended, "response" or a failure mode
    drainOrder,       \* the tasks in the order the loop received their results
    doneQ,            \* as_completed's queue of finished tasks
    cf_domains,       \* main.cf_domains
    checked,          \* main.checked
    printed,          \* the progress lines printed by the last loop iteration
    probeIn,          \* a single call of check_cloudflare: domain and request outcome
    probeOut,         \* what that call returned
    output            \* content written to OUTPUT_FILE, NotSaved before

vars == << rows, concurrencyLimit, pc, domains, semaphore, st, result, acquired,
           released, cause, drainOrder, doneQ, cf_domains, checked, printed,
           probeIn, probeOut, output >>

None == "None"

\* a task without an outcome yet
NoResult == [ raised |-> FALSE, value |-> << >> ]

\* OUTPUT_FILE before it is written: a marker that is no list of domains
NotSaved == << None >>

\* nothing printed by a loop iteration
NoPrint == << >>

----------------------------------------------------------------------------
(* Bounds of the model *)

MaxRows == 2
MaxLimit == 2
MaxHeaders == 2

(* Program constants *)

MAX_DOMAINS == 10000
CONCURRENT_LIMIT == 100

\* line 72: the "still scanning" line is due when checked is a multiple of it
Milestone == 100

----------------------------------------------------------------------------
(* Sequences *)

SeqsUpTo(S, n) == UNION { [1..k -> S] : k \in 0..n }

----------------------------------------------------------------------------
(* Input file: csv rows "rank,domain"; a row may lack the domain field *)

DomainNames == { "a.test", "b.test", "c.test" }

\* a row without a domain field, and rows naming a domain
CsvRows == { << "1" >> } \cup { << "1", d >> : d \in { "a.test", "b.test" } }

\* the three-domain list of the end-to-end scenario
ExampleRows == << << "1", "a.test" >>, << "2", "b.test" >>, << "3", "c.test" >> >>

InputFiles == SeqsUpTo(CsvRows, MaxRows) \cup { ExampleRows }

\* main, lines 42-45: the rows the loop over enumerate(reader) takes a domain
\* from (1-based here, so Python's index is i - 1): those before index
\* MAX_DOMAINS, where the loop breaks, that have at least two fields
KeptRows(rs) == { i \in 1..Len(rs) : i - 1 < MAX_DOMAINS /\ Len(rs[i]) >= 2 }

\* main, lines 39-46: domains, the second field (Python row[1]) of the kept
\* rows in file order
LoadDomains(rs) ==
    LET kept == KeptRows(rs)
    IN  [ k \in 1..Cardinality(kept) |->
            rs[CHOOSE i \in kept : Cardinality({ j \in kept : j <= i }) = k][2] ]

----------------------------------------------------------------------------
(* Strings as character sequences, str.lower() *)

UpperAlpha == << "A", "C", "D", "E", "F", "L", "O", "R", "S", "U", "V", "Y" >>
LowerAlpha == << "a", "c", "d", "e", "f", "l", "o", "r", "s", "u", "v", "y" >>

LowerChar(c) ==
    IF \E k \in 1..Len(UpperAlpha) : UpperAlpha[k] = c
    THEN LowerAlpha[CHOOSE k \in 1..Len(UpperAlpha) : UpperAlpha[k] = c]
    ELSE c

Lower(s) == [ k \in 1..Len(s) |-> LowerChar(s[k]) ]

S_cf_ray == << "c", "f", "-", "r", "a", "y" >>
S_server == << "s", "e", "r", "v", "e", "r" >>
S_cloudflare == << "c", "l", "o", "u", "d", "f", "l", "a", "r", "e" >>
S_empty == << >>

----------------------------------------------------------------------------
(* Response headers: aiohttp's CIMultiDictProxy, an ordered list of        *)
(* (name, value) pairs with case-insensitive names                         *)

HeaderNames == { S_cf_ray,
                 << "C", "F", "-", "R", "a", "y" >>,
                 S_server,
                 << "S", "e", "r", "v", "e", "r" >>,
                 << "x", "-", "c", "f", "-", "r", "a", "y" >> }

HeaderValues == { S_cloudflare,
                  << "C", "l", "o", "u", "d", "F", "l", "a", "r", "e" >>,
                  << "c", "l", "o", "u", "d", "f", "l", "a", "r", "e", "-", "x" >>,
                  << "x" >>,
                  S_empty }

Headers == [ name : HeaderNames, value : HeaderValues ]

HeaderLists == SeqsUpTo(Headers, MaxHeaders)

\* key in headers
Contains(headers, key) ==
    \E k \in 1..Len(headers) : Lower(headers[k].name) = Lower(key)

\* headers.get(key, default): the value of the first pair named key
Get(headers, key, default) ==
    IF Contains(headers, key)
    THEN headers[CHOOSE k \in 1..Len(headers) :
                    /\ Lower(headers[k].name) = Lower(key)
                    /\ \A j \in 1..(k - 1) : Lower(headers[j].name) # Lower(key)].value
    ELSE default

\* line 31
IsCloudflare(headers) ==
    \/ Contains(headers, S_cf_ray)
    \/ Lower(Get(headers, S_server, S_empty)) = S_cloudflare

----------------------------------------------------------------------------
(* check_cloudflare *)

FailureModes == { "connection", "tls", "timeout", "malformed" }

Responses == [ kind : {"ok"}, headers : HeaderLists ]
             \cup [ kind : {"exc"}, error : FailureModes ]

\* a handler that catches aiohttp.ClientError only lets a timeout through
CatchesClientErrorOnly(error) == error # "timeout"

\* except Exception: every failure of the request is an Exception
Catches(error) == TRUE

\* The outcome of check_cloudflare(session, domain) when the request ends
\* with resp: a returned pair, or a propagated exception
check_cloudflare(domain, resp) ==
    IF resp.kind = "ok"
    THEN [ raised |-> FALSE, value |-> << domain, IsCloudflare(resp.headers) >> ]
    ELSE IF Catches(resp.error)
    THEN [ raised |-> FALSE, value |-> << domain, FALSE >> ]
    ELSE [ raised |-> TRUE, value |-> << domain, FALSE >> ]

----------------------------------------------------------------------------
(* asyncio.Semaphore *)

\* Semaphore(value) raises ValueError for value < 0
SemaphoreRaises(value) == value < 0

\* a gate that only closes below zero, and one that closes a slot early
LockedBelowZero(value) == value < 0

LockedAtOne(value) == value <= 1

\* Semaphore.locked()
Locked(value) == value = 0

\* an acquire that takes two slots
SemAcquireTwo(value) == value - 2

SemAcquire(value) == value - 1

\* a release that gives no slot back, or two
SemReleaseNoop(value) == value

SemReleaseTwice(value) == value + 2

SemRelease(value) == value + 1

----------------------------------------------------------------------------
(* as_completed *)

\* an iterator that yields one awaitable too few, or one too many
AsCompletedCountShort(tasks) == Len(tasks) - 1

AsCompletedCountLong(tasks) == Len(tasks) + 1

\* the number of awaitables the iterator yields: one per task
AsCompletedCount(tasks) == Len(tasks)

\* a completion callback that queues the finished task twice
EnqueueTwice(q, i) == q \o << i, i >>

\* the completion callback of a finished task
Enqueue(q, i) == Append(q, i)

QueueGet(q) == Head(q)

\* a get that leaves the head in the queue
QueueRestKeepsHead(q) == q

QueueRest(q) == Tail(q)

----------------------------------------------------------------------------
(* main, lines 68-69 *)

\* an append without the test of is_cf
AggregateAll(cf, out) == Append(cf, out.value[1])

\* an aggregation that drops every match
AggregateNone(cf, out) == cf

\* an insertion at the front
AggregateFront(cf, out) == IF out.value[2] THEN << out.value[1] >> \o cf ELSE cf

Aggregate(cf, out) == IF out.value[2] THEN Append(cf, out.value[1]) ELSE cf

----------------------------------------------------------------------------
(* main, lines 67-73 *)

\* a counter that skips a value
IncrTwice(n) == n + 2

\* line 67: checked += 1
Incr(n) == n + 1

\* line 70
MatchLine(chk, total, domain) ==
    [ kind |-> "match", checked |-> chk, total |-> total, domain |-> domain ]

\* line 73
ScanLine(chk, total, found) ==
    [ kind |-> "scanning", checked |-> chk, total |-> total, found |-> found ]

\* the milestone test taken out of the else branch: both lines can print
PrintedLinesBoth(chk, total, cf, out) ==
    (IF out.value[2] THEN << MatchLine(chk, total, out.value[1]) >> ELSE << >>)
    \o (IF chk % Milestone = 0 THEN << ScanLine(chk, total, Len(cf)) >> ELSE << >>)

\* a milestone test that compares with the wrong remainder
PrintedLinesOffByOne(chk, total, cf, out) ==
    IF out.value[2] THEN << MatchLine(chk, total, out.value[1]) >>
    ELSE IF chk % Milestone = 1 THEN << ScanLine(chk, total, Len(cf)) >>
    ELSE NoPrint

\* lines 68-73: what one iteration prints, given the updated checked and
\* cf_domains and the received result
PrintedLines(chk, total, cf, out) ==
    IF out.value[2] THEN << MatchLine(chk, total, out.value[1]) >>
    ELSE IF chk % Milestone = 0 THEN << ScanLine(chk, total, Len(cf)) >>
    ELSE NoPrint

----------------------------------------------------------------------------
(* check_with_semaphore and check_cloudflare, lines 58-59 and 23-28 *)

\* a timeout that also runs while the task waits for the semaphore
RequestRunningAtGate(state) == state \in { "waiting", "inflight" }

\* the request, and with it the ClientTimeout, runs only inside
\* "async with semaphore"
RequestRunning(state) == state = "inflight"

----------------------------------------------------------------------------

\* The header lists the batch model receives: absent, the sentinel header,
\* a server header naming the provider, a server header naming another
SampleLists ==
    { << >>,
      << [ name |-> << "C", "F", "-", "R", "a", "y" >>, value |-> << "x" >> ] >>,
      << [ name |-> << "S", "e", "r", "v", "e", "r" >>,
           value |-> << "C", "l", "o", "u", "d", "F", "l", "a", "r", "e" >> ] >>,
      << [ name |-> S_server, value |-> << "x" >> ] >> }

Tasks == DOMAIN st

LimitValues == (-1..MaxLimit) \cup { CONCURRENT_LIMIT }

Init ==
    /\ rows \in InputFiles
    /\ concurrencyLimit \in LimitValues
    /\ pc = "start"
    /\ domains = << >>
    /\ semaphore = 0
    /\ st = << >>
    /\ result = << >>
    /\ acquired = << >>
    /\ released = << >>
    /\ cause = << >>
    /\ drainOrder = << >>
    /\ doneQ = << >>
    /\ cf_domains = << >>
    /\ checked = 0
    /\ printed = NoPrint
    /\ probeIn = None
    /\ probeOut = None
    /\ output = NotSaved

\* main, lines 39-63: read the list, create the semaphore, create one task
\* per domain; as_completed schedules them all
Start ==
    /\ pc = "start"
    /\ domains' = LoadDomains(rows)
    /\ cf_domains' = << >>
    /\ checked' = 0
    /\ IF SemaphoreRaises(concurrencyLimit)
       THEN /\ pc' = "raised"
            /\ UNCHANGED << semaphore, st, result, acquired, released, cause >>
       ELSE /\ pc' = "draining"
            /\ semaphore' = concurrencyLimit
            /\ st' = [ i \in 1..Len(domains') |-> "waiting" ]
            /\ result' = [ i \in 1..Len(domains') |-> NoResult ]
            /\ acquired' = [ i \in 1..Len(domains') |-> 0 ]
            /\ released' = [ i \in 1..Len(domains') |-> 0 ]
            /\ cause' = [ i \in 1..Len(domains') |-> None ]
    /\ UNCHANGED << rows, concurrencyLimit, doneQ, drainOrder, printed, probeIn,
                    probeOut, output >>

\* check_with_semaphore, line 58: async with semaphore (entry)
Acquire(i) ==
    /\ pc = "draining"
    /\ st[i] = "waiting"
    /\ ~Locked(semaphore)
    /\ semaphore' = SemAcquire(semaphore)
    /\ st' = [ st EXCEPT ![i] = "inflight" ]
    /\ acquired' = [ acquired EXCEPT ![i] = @ + 1 ]
    /\ UNCHANGED << rows, concurrencyLimit, pc, domains, result, released, cause,
                    drainOrder, doneQ, cf_domains, checked, printed, probeIn,
                    probeOut, output >>

\* check_cloudflare, lines 23-32: the response arrives and is classified;
\* leaving "async with session.head(...)" may suspend before the task returns
Respond(i, headers) ==
    LET resp == [ kind |-> "ok", headers |-> headers ]
        out == check_cloudflare(domains[i], resp)
    IN  /\ pc = "draining"
        /\ RequestRunning(st[i])
        /\ result' = [ result EXCEPT ![i] = out ]
        /\ st' = [ st EXCEPT ![i] = "closing" ]
        /\ cause' = [ cause EXCEPT ![i] = "response" ]
        /\ UNCHANGED << rows, concurrencyLimit, pc, domains, semaphore, acquired,
                        released, drainOrder, doneQ, cf_domains, checked, printed,
                        probeIn, probeOut, output >>

\* check_with_semaphore, lines 58-59: async with semaphore (exit), the task
\* finishes and as_completed queues it
Release(i) ==
    /\ pc = "draining"
    /\ st[i] = "closing"
    /\ semaphore' = SemRelease(semaphore)
    /\ released' = [ released EXCEPT ![i] = @ + 1 ]
    /\ st' = [ st EXCEPT ![i] = "finished" ]
    /\ doneQ' = Enqueue(doneQ, i)
    /\ UNCHANGED << rows, concurrencyLimit, pc, domains, result, acquired, cause,
                    drainOrder, cf_domains, checked, printed, probeIn, probeOut,
                    output >>

\* check_cloudflare, lines 33-35, then lines 58-59: the request fails
\* (connection, TLS, timeout, malformed response); the exception is handled,
\* the semaphore released and the task finishes without suspending
Fail(i, error) ==
    LET resp == [ kind |-> "exc", error |-> error ]
        out == check_cloudflare(domains[i], resp)
    IN  /\ pc = "draining"
        /\ RequestRunning(st[i])
        /\ result' = [ result EXCEPT ![i] = out ]
        /\ cause' = [ cause EXCEPT ![i] = error ]
        /\ semaphore' = SemRelease(semaphore)
        /\ released' = [ released EXCEPT ![i] = @ + 1 ]
        /\ st' = [ st EXCEPT ![i] = "finished" ]
        /\ doneQ' = Enqueue(doneQ, i)
        /\ UNCHANGED << rows, concurrencyLimit, pc, domains, acquired, drainOrder,
                        cf_domains, checked, printed, probeIn, probeOut, output >>

\* main, lines 65-73: one iteration of the loop over as_completed
Drain ==
    /\ pc = "draining"
    /\ checked < AsCompletedCount(domains)
    /\ doneQ # << >>
    /\ LET i == QueueGet(doneQ)
           out == result[i]
       IN  /\ doneQ' = QueueRest(doneQ)
           /\ st' = [ st EXCEPT ![i] = "drained" ]
           /\ drainOrder' = Append(drainOrder, i)
           /\ IF out.raised
              THEN /\ pc' = "raised"
                   /\ UNCHANGED << checked, cf_domains, printed >>
              ELSE /\ pc' = pc
                   /\ checked' = Incr(checked)
                   /\ cf_domains' = Aggregate(cf_domains, out)
                   /\ printed' = PrintedLines(checked', Len(domains), cf_domains', out)
    /\ UNCHANGED << rows, concurrencyLimit, domains, semaphore, result, acquired,
                    released, cause, probeIn, probeOut, output >>

\* main, lines 75-82: the loop has yielded every awaitable; save the result
Finish ==
    /\ pc = "draining"
    /\ checked >= AsCompletedCount(domains)
    /\ pc' = "done"
    /\ output' = cf_domains
    /\ UNCHANGED << rows, concurrencyLimit, domains, semaphore, st, result, acquired,
                    released, cause, drainOrder, doneQ, cf_domains, checked, printed,
                    probeIn, probeOut >>

Next ==
    \/ Start
    \/ \E i \in Tasks : Acquire(i)
    \/ \E i \in Tasks : \E h \in SampleLists : Respond(i, h)
    \/ \E i \in Tasks : Release(i)
    \/ \E i \in Tasks : \E e \in FailureModes : Fail(i, e)
    \/ Drain
    \/ Finish

Spec == Init /\ [][Next]_vars

----------------------------------------------------------------------------
(* A long batch, taken up shortly before the milestone: the inputs of Init *)
(* are too short for checked to reach Milestone, and a run over a long     *)
(* input from the start has too many interleavings. InitLate is the state  *)
(* main is in after LateDrained tasks of a batch of LateTotal domains ran  *)
(* and were drained one after the other, each answered by a response       *)
(* without the signals, except that the first may have matched; the other  *)
(* tasks still wait for the semaphore.                                     *)

LateDrained == Milestone - 2

LateTotal == Milestone + 1

LateRows == [ i \in 1..LateTotal |-> << "1", "a.test" >> ]

MatchingList == << [ name |-> S_cf_ray, value |-> S_empty ] >>

InitLate ==
    \E firstMatched \in BOOLEAN :
        LET doms == LoadDomains(LateRows)
            res == [ i \in 1..LateTotal |->
                       IF i <= LateDrained
                       THEN check_cloudflare(doms[i],
                               [ kind |-> "ok",
                                 headers |-> IF i = 1 /\ firstMatched
                                             THEN MatchingList ELSE << >> ])
                       ELSE NoResult ]
            cf == IF firstMatched THEN << doms[1] >> ELSE << >>
        IN  /\ rows = LateRows
            /\ concurrencyLimit \in { l \in LimitValues : l > 0 }
            /\ pc = "draining"
            /\ domains = doms
            /\ semaphore = concurrencyLimit
            /\ st = [ i \in 1..LateTotal |->
                        IF i <= LateDrained THEN "drained" ELSE "waiting" ]
            /\ result = res
            /\ acquired = [ i \in 1..LateTotal |-> IF i <= LateDrained THEN 1 ELSE 0 ]
            /\ released = [ i \in 1..LateTotal |-> IF i <= LateDrained THEN 1 ELSE 0 ]
            /\ cause = [ i \in 1..LateTotal |->
                           IF i <= LateDrained THEN "response" ELSE None ]
            /\ drainOrder = [ i \in 1..LateDrained |-> i ]
            /\ doneQ = << >>
            /\ cf_domains = cf
            /\ checked = LateDrained
            /\ printed = PrintedLines(LateDrained, LateTotal, cf, res[LateDrained])
            /\ probeIn = None
            /\ probeOut = None
            /\ output = NotSaved

\* the batch from its start, and the long batch from InitLate
InitLong == Init \/ InitLate

SpecLong == InitLong /\ [][Next]_vars

\* the scheduler runs a ready step and every request ends (at the latest by
\* its timeout): some step is taken as long as one is possible
FairSpec == Spec /\ WF_vars(Next)

----------------------------------------------------------------------------
(* check_cloudflare on its own: one call on every domain and request outcome *)

InitProbe ==
    /\ rows = << >>
    /\ concurrencyLimit = CONCURRENT_LIMIT
    /\ pc = "probe"
    /\ domains = << >>
    /\ semaphore = 0
    /\ st = << >>
    /\ result = << >>
    /\ acquired = << >>
    /\ released = << >>
    /\ cause = << >>
    /\ drainOrder = << >>
    /\ doneQ = << >>
    /\ cf_domains = << >>
    /\ checked = 0
    /\ printed = NoPrint
    /\ probeIn \in [ domain : DomainNames, resp : Responses ]
    /\ probeOut = None
    /\ output = NotSaved

ProbeCall ==
    /\ pc = "probe"
    /\ probeOut' = check_cloudflare(probeIn.domain, probeIn.resp)
    /\ pc' = "probed"
    /\ UNCHANGED << rows, concurrencyLimit, domains, semaphore, st, result, acquired,
                    released, cause, drainOrder, doneQ, cf_domains, checked, printed,
                    probeIn, output >>

NextProbe == ProbeCall

SpecProbe == InitProbe /\ [][NextProbe]_vars

----------------------------------------------------------------------------
(* Properties *)

\* the tasks that hold a slot of the semaphore
Holding == { i \in Tasks : acquired[i] > released[i] }

\* how many times the loop received the result of task i
DrainCount(i) == Cardinality({ k \in 1..Len(drainOrder) : drainOrder[k] = i })

NoDup(s) == \A i, j \in 1..Len(s) : i # j => s[i] # s[j]

\* the domains of the tasks of order whose result matched, in that order
RECURSIVE MatchedDomains(_)
MatchedDomains(order) ==
    IF order = << >> THEN << >>
    ELSE (IF result[Head(order)].value[2] THEN << domains[Head(order)] >> ELSE << >>)
         \o MatchedDomains(Tail(order))

Negatives == { i \in Tasks : cause[i] # None /\ ~result[i].value[2] }

\* C1 (concurrency bound): with a positive limit the number of tasks holding
\* a slot never exceeds concurrencyLimit, and no step admits a waiting task
\* while concurrencyLimit tasks hold a slot.
C1_ConcurrencyBound ==
    /\ [](concurrencyLimit > 0 => Cardinality(Holding) <= concurrencyLimit)
    /\ [][ \A i \in Tasks :
             ( /\ concurrencyLimit > 0
               /\ st[i] = "waiting"
               /\ Cardinality(Holding) >= concurrencyLimit )
             => st'[i] = "waiting" ]_vars

C1_Witness ==
    /\ concurrencyLimit > 0
    /\ Cardinality(Holding) = concurrencyLimit
    /\ \E i \in Tasks : st[i] = "waiting"
    /\ \E i \in Tasks : st[i] = "drained"

\* C2 (degenerate limit): with concurrencyLimit <= 0 the batch neither raises
\* nor stops before it is done, and when done the saved result is empty.
C2_DegenerateLimit ==
    concurrencyLimit <= 0 =>
        /\ pc # "raised"
        /\ (pc = "draining" => ENABLED Next)
        /\ (pc = "done" => output = << >>)

\* C3 (completeness): no result is drained twice; when the batch is done
\* with a positive limit every task has exactly one result, for its own
\* domain, drained exactly once, checked equals the number of domains, and
\* the matches and the negative results add up to that number.
C3_Completeness ==
    /\ \A i \in Tasks : DrainCount(i) <= 1
    /\ (pc = "done" /\ concurrencyLimit > 0) =>
          /\ Tasks = 1..Len(domains)
          /\ checked = Len(domains)
          /\ Len(drainOrder) = Len(domains)
          /\ \A i \in Tasks :
                /\ DrainCount(i) = 1
                /\ cause[i] # None
                /\ ~result[i].raised
                /\ result[i].value[1] = domains[i]
          /\ Len(cf_domains) + Cardinality(Negatives) = Len(domains)

C3_Witness ==
    /\ pc = "done"
    /\ concurrencyLimit > 0
    /\ Len(domains) >= 2
    /\ cf_domains # << >>
    /\ Negatives # {}

\* C4 (result exactness): when the batch is done with a positive limit, the
\* saved result is cf_domains and lists exactly the domains of the tasks
\* whose result matched, in the order the loop drained them.
C4_ResultExactness ==
    (pc = "done" /\ concurrencyLimit > 0) =>
        /\ output = cf_domains
        /\ cf_domains = MatchedDomains(drainOrder)

\* the end-to-end scenario: a.test matches, b.test times out, c.test answers
\* without a match
C4_Witness ==
    /\ pc = "done"
    /\ concurrencyLimit > 0
    /\ domains = << "a.test", "b.test", "c.test" >>
    /\ cause = << "response", "timeout", "response" >>
    /\ result[1].value[2]
    /\ ~result[3].value[2]
    /\ output = << "a.test" >>
    /\ checked = 3
    /\ Len(cf_domains) = 1

\* C5 as stated (no duplication): cf_domains never contains a domain twice,
\* whatever the input.
C5_NoDuplication == NoDup(cf_domains)

\* C5 amended: when the input names no domain twice, cf_domains never
\* contains a domain twice.
C5_NoDuplicationDistinctInput == NoDup(domains) => NoDup(cf_domains)

C5_Witness ==
    /\ pc = "done"
    /\ NoDup(domains)
    /\ Len(cf_domains) >= 2

\* C6 (error isolation): a task whose request failed, in any failure mode,
\* has the returned pair (domain, False), the same outcome as a response
\* without the signals, and main never ends with an exception unless the
\* semaphore could not be created.
C6_ErrorIsolation ==
    /\ \A i \in Tasks :
          cause[i] \in FailureModes =>
             /\ result[i] = [ raised |-> FALSE, value |-> << domains[i], FALSE >> ]
             /\ result[i] = check_cloudflare(domains[i],
                                             [ kind |-> "ok", headers |-> << >> ])
    /\ (concurrencyLimit >= 0 => pc # "raised")

C6_Witness ==
    /\ pc = "done"
    /\ \E i, j \in Tasks :
          /\ cause[i] = "timeout"
          /\ cause[j] \in FailureModes \ { "timeout" }
    /\ \A i \in Tasks : cause[i] \in FailureModes

\* C7 (gate non-leakage): with a positive limit a task acquires at most
\* once, a finished task has released exactly once, a task that holds a slot
\* has not released, the batch is never stuck before it is done, and when it
\* is done the semaphore is back at concurrencyLimit.
C7_GateNonLeakage ==
    concurrencyLimit > 0 =>
        /\ \A i \in Tasks :
              /\ released[i] <= acquired[i]
              /\ acquired[i] <= 1
              /\ (st[i] \in { "finished", "drained" } => released[i] = 1)
              /\ (st[i] \in { "inflight", "closing" } => released[i] = 0)
        /\ (pc = "draining" => ENABLED Next)
        /\ (pc = "done" => semaphore = concurrencyLimit)

\* every probe timed out, more probes than slots, and the batch is done
C7_Witness ==
    /\ pc = "done"
    /\ concurrencyLimit > 0
    /\ Len(domains) > concurrencyLimit
    /\ \A i \in Tasks : cause[i] = "timeout"
    /\ semaphore = concurrencyLimit

\* C8 (no partial results): when main is done (the result is saved) every
\* task has been drained: none waits, holds a slot or sits in the queue.
C8_NoPartialResults ==
    pc = "done" =>
        /\ Tasks = 1..Len(domains)
        /\ \A i \in Tasks : st[i] = "drained"
        /\ doneQ = << >>
        /\ Holding = {}

C8_Witness ==
    /\ pc = "done"
    /\ Len(domains) >= 2
    /\ output = cf_domains

\* C9 (empty input): when the file yields no domain and the limit is
\* positive, there is no task, nothing is drained or admitted, the loop can
\* only end, and the saved result is empty.
C9_EmptyInput ==
    (pc # "start" /\ LoadDomains(rows) = << >> /\ concurrencyLimit > 0) =>
        /\ pc \in { "draining", "done" }
        /\ Tasks = {}
        /\ checked = 0
        /\ drainOrder = << >>
        /\ cf_domains = << >>
        /\ semaphore = concurrencyLimit
        /\ (pc = "draining" => ENABLED Finish /\ ~ENABLED Drain)
        /\ (pc = "done" => output = << >>)

C9_Witness ==
    /\ pc = "done"
    /\ rows # << >>
    /\ domains = << >>
    /\ concurrencyLimit > 0
    /\ output = << >>

\* the rule as the claim states it: some header named cf-ray, or some header
\* named server whose lowered value is cloudflare
ClaimedMatch(headers) ==
    \/ \E k \in 1..Len(headers) : Lower(headers[k].name) = S_cf_ray
    \/ \E k \in 1..Len(headers) :
          /\ Lower(headers[k].name) = S_server
          /\ Lower(headers[k].value) = S_cloudflare

\* C10 (classification rule): check_cloudflare on a response returns a match
\* if and only if the headers contain cf-ray (any case, any value) or a
\* server header (any case) whose lowered value is exactly cloudflare.
C10_ClassificationRule ==
    (pc = "probed" /\ probeIn.resp.kind = "ok") =>
        /\ ~probeOut.raised
        /\ probeOut.value[1] = probeIn.domain
        /\ (probeOut.value[2] <=> ClaimedMatch(probeIn.resp.headers))

\* the task whose result the loop received last
LastDrained == drainOrder[Len(drainOrder)]

IsPrefix(s, t) == Len(s) <= Len(t) /\ \A k \in 1..Len(s) : s[k] = t[k]

\* C11 (progress counter): checked is 0 before the batch, equals the number
\* of drained results, never exceeds the number of domains, changes only in
\* a step that drains one result and then by exactly +1, and equals the
\* number of domains when main is done.
C11_ProgressCounter ==
    /\ [](pc = "start" => checked = 0)
    /\ [](checked <= Len(domains))
    /\ [](pc # "raised" => checked = Len(drainOrder))
    /\ [](pc = "done" => checked = Len(domains))
    /\ [][ /\ checked' >= checked
           /\ checked' # checked =>
                 /\ checked' = checked + 1
                 /\ doneQ # << >>
                 /\ drainOrder' = Append(drainOrder, Head(doneQ)) ]_vars

C11_Witness ==
    /\ pc = "done"
    /\ checked = 3
    /\ Len(domains) = 3

\* C12 as stated (milestones): after each drained result the iteration has
\* printed a match line if the result matched, and a "still scanning" line
\* if checked is a multiple of 100, whatever the result.
C12_MilestoneObservations ==
    (drainOrder # << >> /\ pc # "raised") =>
        /\ result[LastDrained].value[2] =>
              \E k \in 1..Len(printed) :
                 /\ printed[k].kind = "match"
                 /\ printed[k].domain = domains[LastDrained]
        /\ checked % 100 = 0 =>
              \E k \in 1..Len(printed) : printed[k].kind = "scanning"

\* C12 amended: a match line if the result matched; a "still scanning" line
\* if checked is a multiple of 100 and the result did not match.
C12_MilestoneUnlessMatched ==
    (drainOrder # << >> /\ pc # "raised") =>
        /\ result[LastDrained].value[2] =>
              \E k \in 1..Len(printed) :
                 /\ printed[k].kind = "match"
                 /\ printed[k].domain = domains[LastDrained]
        /\ (checked % 100 = 0 /\ ~result[LastDrained].value[2]) =>
              \E k \in 1..Len(printed) : printed[k].kind = "scanning"

C12_Witness ==
    /\ checked = 100
    /\ ~result[LastDrained].value[2]
    /\ Len(printed) = 1
    /\ printed[1].kind = "scanning"
    /\ printed[1].found = 1

\* C13 (timeout isolation): the step in which task i times out gives i the
\* negative result and releases its slot once; it leaves every other task's
\* state, result and slot, the set of other slot holders, cf_domains,
\* checked and the drained results unchanged.
C13_TimeoutIsolation ==
    [][ \A i \in Tasks :
          (cause[i] = None /\ cause'[i] = "timeout") =>
             /\ result'[i] = [ raised |-> FALSE, value |-> << domains[i], FALSE >> ]
             /\ i \in Holding
             /\ Holding' = Holding \ { i }
             /\ released'[i] = released[i] + 1
             /\ acquired'[i] = acquired[i]
             /\ semaphore' = semaphore + 1
             /\ \A j \in Tasks \ { i } :
                   /\ st'[j] = st[j]
                   /\ cause'[j] = cause[j]
                   /\ acquired'[j] = acquired[j]
                   /\ released'[j] = released[j]
                   /\ result'[j] = result[j]
             /\ UNCHANGED << cf_domains, checked, drainOrder, printed, pc, domains >>
      ]_vars

C13_Witness ==
    \E i, j \in Tasks :
       /\ cause[i] = "timeout"
       /\ st[i] = "finished"
       /\ st[j] = "closing"
       /\ result[j].value[2]
       /\ cf_domains # << >>

\* C14 (single consumer): cf_domains, checked and the printed lines change
\* only in a step that drains a result; cf_domains only grows at its end;
\* a drained negative result leaves cf_domains as it is and adds 1 to
\* checked, a drained match appends its domain.
C14_SingleConsumer ==
    [][ /\ (cf_domains' # cf_domains \/ checked' # checked \/ printed' # printed) =>
              (doneQ # << >> /\ drainOrder' = Append(drainOrder, Head(doneQ)))
        /\ IsPrefix(cf_domains, cf_domains')
        /\ (drainOrder' # drainOrder /\ pc' # "raised") =>
              /\ checked' = checked + 1
              /\ IF result[Head(doneQ)].value[2]
                 THEN cf_domains' = Append(cf_domains, domains[Head(doneQ)])
                 ELSE cf_domains' = cf_domains ]_vars

C14_Witness ==
    /\ drainOrder # << >>
    /\ ~result[LastDrained].value[2]
    /\ Len(cf_domains) >= 2
    /\ checked = 3

\* C15 (termination): with a positive limit and at least one domain, under
\* the fairness of FairSpec, main reaches done with every result drained.
C15_BatchTermination ==
    (pc = "start" /\ concurrencyLimit > 0 /\ LoadDomains(rows) # << >>)
    ~> ( /\ pc = "done"
         /\ checked = Len(domains)
         /\ \A i \in Tasks : st[i] = "drained" )

C15_Witness ==
    /\ pc = "done"
    /\ concurrencyLimit > 0
    /\ Len(domains) > concurrencyLimit
    /\ checked = Len(domains)

\* C16 (gate accounting): with a positive limit, once the tasks exist, the
\* semaphore is between 0 and the limit, semaphore plus slot holders is the
\* limit, there is one task per domain, and the tasks that never acquired,
\* the slot holders, the queued results and the drained results add up to
\* the number of domains.
C16_GateAccounting ==
    (concurrencyLimit > 0 /\ pc \in { "draining", "done" }) =>
        /\ semaphore >= 0
        /\ semaphore <= concurrencyLimit
        /\ semaphore + Cardinality(Holding) = concurrencyLimit
        /\ Tasks = 1..Len(domains)
        /\ Cardinality({ i \in Tasks : acquired[i] = 0 }) + Cardinality(Holding)
              + Len(doneQ) + Len(drainOrder) = Len(domains)
        /\ \A i \in Tasks : acquired[i] = 0 => released[i] = 0

C16_Witness ==
    /\ concurrencyLimit > 0
    /\ \E i \in Tasks : acquired[i] = 0
    /\ Holding # {}
    /\ doneQ # << >>

\* C17 (timeout starts after the gate): a task that has not acquired the
\* semaphore has no outcome, is not queued and not drained; an outcome
\* (response or failure) is only ever set for a task that holds a slot.
C17_NoOutcomeAtGate ==
    /\ [](\A i \in Tasks :
            acquired[i] = 0 =>
               /\ st[i] = "waiting"
               /\ cause[i] = None
               /\ \A k \in 1..Len(doneQ) : doneQ[k] # i
               /\ \A k \in 1..Len(drainOrder) : drainOrder[k] # i)
    /\ [][ \A i \in Tasks : cause'[i] # cause[i] => i \in Holding ]_vars

C17_Witness ==
    \E i, j \in Tasks :
       /\ st[i] = "waiting"
       /\ cause[j] = "timeout"
       /\ st[j] = "drained"
       /\ Holding # {}

\* C18 (at most one line): the iteration that drained the last result
\* printed exactly the match line if the result matched; otherwise exactly
\* the "still scanning" line if checked is a multiple of 100; otherwise
\* nothing. It never printed both.
C18_AtMostOneObservation ==
    (drainOrder # << >> /\ pc # "raised") =>
        /\ Len(printed) <= 1
        /\ IF result[LastDrained].value[2]
           THEN Len(printed) = 1 /\ printed[1].kind = "match"
           ELSE IF checked % 100 = 0
           THEN Len(printed) = 1 /\ printed[1].kind = "scanning"
           ELSE printed = << >>

\* the 100th result matched
C18_Witness ==
    /\ checked = 100
    /\ result[LastDrained].value[2]
    /\ Len(printed) = 1
    /\ printed[1].kind = "match"

\* the drained results that matched
MatchedDrained == { k \in 1..Len(drainOrder) : result[drainOrder[k]].value[2] }

\* C19 (counters): the number of matches, len(cf_domains), is the number of
\* drained results that matched and is at most checked, which is at most the
\* number of domains; every printed line shows the current checked and
\* total, a "still scanning" line the current len(cf_domains); the saved
\* result has that length.
C19_CounterOrder ==
    pc # "raised" =>
        /\ Len(cf_domains) = Cardinality(MatchedDrained)
        /\ Len(cf_domains) <= checked
        /\ checked <= Len(domains)
        /\ \A k \in 1..Len(printed) :
              /\ printed[k].checked = checked
              /\ printed[k].total = Len(domains)
              /\ printed[k].kind = "scanning" =>
                    /\ printed[k].found = Len(cf_domains)
                    /\ printed[k].found <= printed[k].checked
              /\ printed[k].checked <= printed[k].total
        /\ pc = "done" => Len(output) = Len(cf_domains)

C19_Witness ==
    /\ pc = "done"
    /\ checked = Milestone + 1
    /\ Len(cf_domains) = 3

====
